---- MODULE Spec2Model ----
(***************************************************************************)
(* Model of src/app.js: an Express application serving CRUD requests over  *)
(* the in-memory array `books`.  Every request handler runs to completion  *)
(* (Node's event loop, no awaits), so each handler is one atomic action.   *)
(* The state is the array, the request being served and its response.      *)
(***************************************************************************)
EXTENDS Integers, Sequences, FiniteSets, TLC

VARIABLES books, req, res

vars == <<books, req, res>>

(***************************************************************************)
(* Bounds of the model.                                                    *)
(***************************************************************************)
\* Create is not issued once the array holds MaxBooks records.
MaxBooks == 3

(***************************************************************************)
(* JSON values of the body fields: a string, or undefined when the key is  *)
(* absent from the body.                                                   *)
(***************************************************************************)
Str(s) == [type |-> "string", val |-> s]

undefined == [type |-> "undefined", val |-> ""]

\* JavaScript truthiness, as used by `!title` and `title || old`.
Truthy(v) == v.type = "string" /\ v.val # ""

\* A JSON body: req.body.title and req.body.author.
Body(title, author) == [title |-> title, author |-> author]

\* The bodies clients send: each field absent, empty or a non-empty string.
Bodies ==
    { Body(undefined, undefined),
      Body(Str(""), Str("Herbert")),
      Body(Str("Dune"), Str("")),
      Body(Str("P&P Rev."), undefined),
      Body(undefined, Str("Herbert")),
      Body(Str("Dune"), Str("Herbert")) }

\* The initial contents of the array.
SeedBooks ==
    << [id |-> "1", title |-> Str("The Hitchhiker's Guide to the Galaxy"),
                    author |-> Str("Douglas Adams")],
       [id |-> "2", title |-> Str("Pride and Prejudice"),
                    author |-> Str("Jane Austen")],
       [id |-> "3", title |-> Str("1984"),
                    author |-> Str("George Orwell")] >>

\* Outcomes of Math.random().toString(36).substr(2, 9): the call is not
\* a function of the array, so every token is a possible outcome in every
\* state.  "i" is what 0.5 yields ("0.i"), "9" what 0.25 yields ("0.9").
generateUniqueId == {"i", "9"}

\* The :id path parameter of a request.
Ids == {"1", "2", "3"} \cup generateUniqueId

(***************************************************************************)
(* Array helpers.                                                          *)
(***************************************************************************)
RECURSIVE findIndexFrom(_, _, _)
findIndexFrom(bs, id, k) ==
    IF k > Len(bs) THEN 0
    ELSE IF bs[k].id = id THEN k
    ELSE findIndexFrom(bs, id, k + 1)

RECURSIVE findLastIndexFrom(_, _, _)
findLastIndexFrom(bs, id, k) ==
    IF k < 1 THEN 0
    ELSE IF bs[k].id = id THEN k
    ELSE findLastIndexFrom(bs, id, k - 1)

findLastIndex(bs, id) == findLastIndexFrom(bs, id, Len(bs))

\* books.findIndex(b => b.id === id); 0 stands for JavaScript's -1.
findIndex(bs, id) == findIndexFrom(bs, id, 1)

removeFirst(bs, id) ==
    LET k == findIndexFrom(bs, id, 1)
    IN  IF k = 0 THEN bs
        ELSE SubSeq(bs, 1, k - 1) \o SubSeq(bs, k + 1, Len(bs))

\* books.filter(book => book.id !== id)
filter(bs, id) == SelectSeq(bs, LAMBDA book : book.id # id)

unshift(bs, b) == <<b>> \o bs

\* books.push(newBook)
push(bs, b) == Append(bs, b)

orElseAlways(a, b) == a

\* a || b
orElse(a, b) == IF Truthy(a) THEN a ELSE b

(***************************************************************************)
(* Requests and responses.                                                 *)
(***************************************************************************)
Request(method, id, title, author) ==
    [method |-> method, id |-> id, title |-> title, author |-> author]

Message(m) == [message |-> m]

Response(status, body) == [status |-> status, body |-> body]

\* res.status(204).send(): no body.
NoBody == <<>>

(***************************************************************************)
(* The handlers.                                                           *)
(***************************************************************************)
\* GET /books
ListBooks ==
    /\ req' = Request("GET", "", undefined, undefined)
    /\ res' = Response(200, books)
    /\ UNCHANGED books

\* The response of GET /books/:id on array bs.
GetResponse(bs, id) ==
    LET k == findIndex(bs, id)
    IN  IF k # 0 THEN Response(200, bs[k])
        ELSE Response(404, Message("Book not found"))

\* GET /books/:id
GetBook(id) ==
    /\ req' = Request("GET", id, undefined, undefined)
    /\ res' = GetResponse(books, id)
    /\ UNCHANGED books

postInvalidTitleOnly(title, author) == ~Truthy(title)

\* !title || !author
postInvalid(title, author) == ~Truthy(title) \/ ~Truthy(author)

\* POST /books
PostBook(title, author) ==
    /\ Len(books) < MaxBooks
    /\ req' = Request("POST", "", title, author)
    /\ IF postInvalid(title, author)
       THEN /\ res' = Response(400, Message("Title and Author are required"))
            /\ UNCHANGED books
       ELSE \E newId \in generateUniqueId :
              LET newBook == [id |-> newId, title |-> title, author |-> author]
              IN  /\ books' = push(books, newBook)
                  /\ res' = Response(201, newBook)

updatedBookSwapped(b, title, author) ==
    [id |-> b.id, title |-> orElse(title, b.title),
                  author |-> orElse(title, b.author)]

\* The two assignments to books[bookIndex].
updatedBook(b, title, author) ==
    [id |-> b.id, title |-> orElse(title, b.title),
                  author |-> orElse(author, b.author)]

\* PUT /books/:id
PutBook(id, title, author) ==
    /\ req' = Request("PUT", id, title, author)
    /\ LET bookIndex == findIndex(books, id)
       IN  IF bookIndex # 0
           THEN /\ books' = [books EXCEPT
                               ![bookIndex] = updatedBook(@, title, author)]
                /\ res' = Response(200, books'[bookIndex])
           ELSE /\ res' = Response(404, Message("Book not found"))
                /\ UNCHANGED books

deleteResponseAlwaysOk(initialLength, newLength) == Response(204, NoBody)

\* The response of DELETE /books/:id, from the lengths before and after.
deleteResponse(initialLength, newLength) ==
    IF newLength < initialLength THEN Response(204, NoBody)
    ELSE Response(404, Message("Book not found"))

\* DELETE /books/:id
DeleteBook(id) ==
    /\ req' = Request("DELETE", id, undefined, undefined)
    /\ LET initialLength == Len(books)
       IN  /\ books' = filter(books, id)
           /\ res' = deleteResponse(initialLength, Len(books'))

Init ==
    /\ books = SeedBooks
    /\ req = Request("NONE", "", undefined, undefined)
    /\ res = Response(0, NoBody)

Next ==
    \/ ListBooks
    \/ \E id \in Ids : GetBook(id)
    \/ \E body \in Bodies : PostBook(body.title, body.author)
    \/ \E id \in Ids, body \in Bodies : PutBook(id, body.title, body.author)
    \/ \E id \in Ids : DeleteBook(id)

Spec == Init /\ [][Next]_vars

(***************************************************************************)
(* Vocabulary of the properties, stated independently of the handlers.     *)
(***************************************************************************)
\* Some record of bs has this id.
Matches(bs, id) == \E k \in 1..Len(bs) : bs[k].id = id

\* The position of the first record of bs with this id.
FirstMatch(bs, id) ==
    CHOOSE k \in 1..Len(bs) :
        bs[k].id = id /\ \A j \in 1..(k - 1) : bs[j].id # id

\* A field value that is present and not the empty string.
NonEmpty(v) == v # undefined /\ v # Str("")

\* A 404 response carrying a {message} body.
IsNotFound(r) == r.status = 404 /\ DOMAIN r.body = {"message"}

\* s is t with some elements left out, order kept.
RECURSIVE IsSubseq(_, _)
IsSubseq(s, t) ==
    IF s = <<>> THEN TRUE
    ELSE IF t = <<>> THEN FALSE
    ELSE IF Head(s) = Head(t) THEN IsSubseq(Tail(s), Tail(t))
    ELSE IsSubseq(s, Tail(t))

IdsOf(bs) == [k \in 1..Len(bs) |-> bs[k].id]

(***************************************************************************)
(* C1: no two records of the registry have the same id, in every state     *)
(* reachable from the seed registry.                                       *)
(***************************************************************************)
UniqueIds ==
    \A i, j \in 1..Len(books) : i # j => books[i].id # books[j].id

(***************************************************************************)
(* C2: right after a successful Create (201), a Get on the returned id     *)
(* answers 200 with a Book whose title and author are the values passed    *)
(* to Create.                                                              *)
(***************************************************************************)
CreateThenGet ==
    (req.method = "POST" /\ res.status = 201) =>
        LET g == GetResponse(books, res.body.id)
        IN  /\ g.status = 200
            /\ g.body.title = req.title
            /\ g.body.author = req.author

(***************************************************************************)
(* C3: a Create whose title or author is empty or absent answers 400 with  *)
(* a {message} body and leaves the registry as it was.                     *)
(***************************************************************************)
InvalidCreateRejected ==
    [][ (req'.method = "POST" /\ (~NonEmpty(req'.title) \/ ~NonEmpty(req'.author)))
          => /\ res'.status = 400
             /\ DOMAIN res'.body = {"message"}
             /\ books' = books
             /\ Len(books') = Len(books) ]_vars

InvalidCreateSeen ==
    /\ req.method = "POST"
    /\ res.status = 400
    /\ NonEmpty(req.title)
    /\ req.author = undefined

(***************************************************************************)
(* C4: right after a successful Delete(id) (204), Get(id) answers 404, and *)
(* an id for which Get answers 404 keeps answering 404 across every step   *)
(* that is not a Create returning that id.                                 *)
(***************************************************************************)
DeleteThenGetNotFound ==
    /\ []((req.method = "DELETE" /\ res.status = 204)
            => IsNotFound(GetResponse(books, req.id)))
    /\ [][ books' # books =>
             \A id \in Ids :
               (/\ GetResponse(books, id).status = 404
                /\ ~(req'.method = "POST" /\ res'.status = 201 /\ res'.body.id = id))
                 => GetResponse(books', id).status = 404 ]_vars

DeleteSucceeded ==
    /\ req.method = "DELETE"
    /\ res.status = 204
    /\ Len(books) > 0

(***************************************************************************)
(* C5: an Update on a matching id overwrites each field supplied non-empty *)
(* and keeps each field omitted or empty; the 200 response is the stored   *)
(* record after the update.                                                *)
(***************************************************************************)
UpdateOverwritesSupplied ==
    [][ (req'.method = "PUT" /\ Matches(books, req'.id)) =>
          LET k == FirstMatch(books, req'.id)
          IN  /\ books'[k].title =
                    IF NonEmpty(req'.title) THEN req'.title ELSE books[k].title
              /\ books'[k].author =
                    IF NonEmpty(req'.author) THEN req'.author ELSE books[k].author
              /\ res'.status = 200
              /\ res'.body = books'[k] ]_vars

UpdateTitleOnlySeen ==
    /\ req.method = "PUT"
    /\ res.status = 200
    /\ NonEmpty(req.title)
    /\ req.author = undefined
    /\ res.body.title = req.title
    /\ res.body.author # req.title

(***************************************************************************)
(* C6: Get and Delete on an id matching no record answer 404 with a        *)
(* {message} body, and Get on an id matching a record answers 200.         *)
(***************************************************************************)
NotFoundOnMissingId ==
    [][ /\ (req'.method = "GET" /\ req'.id # "") =>
              IF Matches(books, req'.id) THEN res'.status = 200
              ELSE IsNotFound(res')
        /\ (req'.method = "DELETE" /\ ~Matches(books, req'.id)) =>
              IsNotFound(res') ]_vars

DeleteMissingSeen ==
    /\ req.method = "DELETE"
    /\ res.status = 404
    /\ ~Matches(books, req.id)

(***************************************************************************)
(* C7: every record of the registry has a non-empty title and a non-empty  *)
(* author.                                                                 *)
(***************************************************************************)
FieldsNonEmpty ==
    \A k \in 1..Len(books) :
        NonEmpty(books[k].title) /\ NonEmpty(books[k].author)

UpdateWithEmptyFieldSeen ==
    /\ req.method = "PUT"
    /\ res.status = 200
    /\ req.title = Str("")
    /\ res.body.title # Str("")
    /\ res.body.author = req.author

(***************************************************************************)
(* C8: a successful Delete(id) (204) shrinks the registry by exactly one   *)
(* record and keeps every record whose id differs from the argument.       *)
(***************************************************************************)
DeleteShrinksByOne ==
    [][ (req'.method = "DELETE" /\ res'.status = 204) =>
          /\ Len(books') = Len(books) - 1
          /\ ~Matches(books', req'.id)
          /\ \A k \in 1..Len(books) :
                books[k].id # req'.id =>
                    \E j \in 1..Len(books') : books'[j] = books[k] ]_vars

(***************************************************************************)
(* C9: List answers 200 with the whole registry and changes nothing; a     *)
(* successful Create places its record last; Update keeps every record at  *)
(* its position and Delete keeps the remaining records in their order.     *)
(***************************************************************************)
InsertionOrderKept ==
    [][ /\ (req'.method = "GET" /\ req'.id = "") =>
              res'.status = 200 /\ res'.body = books /\ books' = books
        /\ (req'.method = "POST" /\ res'.status = 201) =>
              /\ Len(books') = Len(books) + 1
              /\ SubSeq(books', 1, Len(books)) = books
              /\ books'[Len(books')] = res'.body
        /\ req'.method = "PUT" => IdsOf(books') = IdsOf(books)
        /\ req'.method = "DELETE" => IsSubseq(books', books) ]_vars

CreateAfterOthersSeen ==
    /\ req.method = "POST"
    /\ res.status = 201
    /\ Len(books) >= 2
    /\ books[Len(books)] = res.body

(***************************************************************************)
(* C10: Update keeps the length of the registry, the order and the id of   *)
(* every record, and changes at most the first record whose id is the      *)
(* argument; on an id matching no record it answers 404 and the registry   *)
(* is as it was.                                                           *)
(***************************************************************************)
UpdateFrame ==
    [][ req'.method = "PUT" =>
          /\ Len(books') = Len(books)
          /\ IdsOf(books') = IdsOf(books)
          /\ IF Matches(books, req'.id)
             THEN \A k \in 1..Len(books) :
                     k # FirstMatch(books, req'.id) => books'[k] = books[k]
             ELSE IsNotFound(res') /\ books' = books ]_vars

UpdateOfDuplicatedIdSeen ==
    /\ req.method = "PUT"
    /\ res.status = 200
    /\ \E i, j \in 1..Len(books) :
          i < j /\ books[i].id = req.id /\ books[j].id = req.id
                /\ books[i] # books[j]

====
